---------------------------- MODULE Spec2Model ----------------------------
(***************************************************************************)
(* statjson.py: for every path of sys.argv[1:], os.stat() it and append a  *)
(* record (an OrderedDict) to the list `stats`; then print the list as one *)
(* JSON document and exit 0 if every os.stat() succeeded, 1 otherwise.     *)
(*                                                                         *)
(* Python values are modelled as tagged tuples, an OrderedDict as the      *)
(* sequence of its <<key, value>> items in insertion order, a str that is  *)
(* indexed (mode_str, mode_octal) as the sequence of its characters.       *)
(***************************************************************************)
EXTENDS Integers, Sequences, FiniteSets, TLC

VARIABLES
    platform,    \* the interpreter and OS the script runs on (never changes)
    fs,          \* the filesystem: path -> node (never changes during a run)
    argv,        \* sys.argv[1:]
    file_types,  \* the module-level defaultdict (a lookup of a missing key inserts it)
    stats,       \* main(): the list of records
    ok,          \* main(): the aggregate flag
    i,           \* main(): position of the for loop in argv (next index, from 1)
    pc,          \* main(): "loop", "exit" (the document is printed), "done"
    stdout,      \* the documents written to standard output, in order
    exitcode     \* the process exit status, NoExit until sys.exit() is called

vars == <<platform, fs, argv, file_types, stats, ok, i, pc, stdout, exitcode>>

---------------------------------------------------------------------------
(* Bounds of the model *)

\* Longest path list explored.
MaxArgs == 3

\* Symbolic links os.stat() follows before it gives up with ELOOP.
MaxFollow == 3

---------------------------------------------------------------------------
(* Python values *)

None == <<"NoneType">>
PyStr(s) == <<"str", s>>
PyInt(n) == <<"int", n>>
PyBool(b) == <<"bool", b>>
PyDict(od) == <<"dict", od>>

\* OrderedDict: the sequence of <<key, value>> items in insertion order.
OdKeys(od) == [k \in 1..Len(od) |-> od[k][1]]

OdHas(od, key) == \E k \in 1..Len(od) : od[k][1] = key

OdGet(od, key) == od[CHOOSE k \in 1..Len(od) : od[k][1] = key][2]

\* od[key] = value: a new key goes last, an existing key keeps its place.
OdSet(od, key, value) ==
    IF OdHas(od, key)
    THEN [k \in 1..Len(od) |-> IF od[k][1] = key THEN <<key, value>> ELSE od[k]]
    ELSE Append(od, <<key, value>>)

---------------------------------------------------------------------------
(* stat module: the mode bits *)

S_ISUID == 2048
S_ISGID == 1024
S_ISVTX == 512
S_IRUSR == 256
S_IWUSR == 128
S_IXUSR == 64
S_IRGRP == 32
S_IWGRP == 16
S_IXGRP == 8
S_IROTH == 4
S_IWOTH == 2
S_IXOTH == 1

S_IFBLK == 24576
S_IFCHR == 8192
S_IFDIR == 16384
S_IFIFO == 4096
S_IFLNK == 40960
S_IFREG == 32768
S_IFSOCK == 49152

\* mode & bit # 0, for a single-bit mask.
HasBit(mode, bit) == (mode \div bit) % 2 = 1

\* stat.S_IFMT(mode) = mode & 0o170000
S_IFMT(mode) == ((mode \div 4096) % 16) * 4096

\* st_mode is 16 bits wide.
Modes == 0..65535

---------------------------------------------------------------------------
(* extra_fields, lines 32-51 *)

extra_fields == <<
    <<"st_blocks", "blocks">>,
    <<"st_blksize", "block_size">>,
    <<"st_rdev", "rdev">>,
    <<"st_flags", "flags">>,
    <<"st_gen", "generation">>,
    <<"st_birthtime", "creation_time">>,
    <<"st_ftype", "ftype">>,
    <<"st_attrs", "attributes">>,
    <<"st_obtype", "object_type">>,
    <<"st_rsize", "real_size">>,
    <<"st_creator", "creator">>,
    <<"st_type", "st_type">>,
    <<"st_file_attributes", "file_attributes">> >>

ExtraAttrs == {extra_fields[k][1] : k \in 1..Len(extra_fields)}

---------------------------------------------------------------------------
(* The platform: the interpreter version, the values the stat module gives *)
(* the three optional type constants (0 where the OS does not define       *)
(* them), and the optional attributes its os.stat_result has.              *)

Platforms == {
    [name |-> "linux", py34 |-> TRUE,
     S_IFDOOR |-> 0, S_IFPORT |-> 0, S_IFWHT |-> 0,
     exposed |-> {"st_blocks", "st_blksize", "st_rdev"}],
    [name |-> "linux-py2", py34 |-> FALSE,
     S_IFDOOR |-> 0, S_IFPORT |-> 0, S_IFWHT |-> 0,
     exposed |-> {"st_blocks", "st_blksize", "st_rdev"}],
    [name |-> "freebsd", py34 |-> TRUE,
     S_IFDOOR |-> 0, S_IFPORT |-> 0, S_IFWHT |-> 57344,
     exposed |-> {"st_blocks", "st_blksize", "st_rdev", "st_flags", "st_gen",
                  "st_birthtime"}],
    [name |-> "solaris", py34 |-> TRUE,
     S_IFDOOR |-> 53248, S_IFPORT |-> 57344, S_IFWHT |-> 0,
     exposed |-> {"st_blocks", "st_blksize", "st_rdev"}],
    [name |-> "bare", py34 |-> TRUE,
     S_IFDOOR |-> 0, S_IFPORT |-> 0, S_IFWHT |-> 0,
     exposed |-> {"st_rdev", "st_file_attributes"}] }

---------------------------------------------------------------------------
(* file_types, lines 53-68: a defaultdict from type bits to (symbol, name) *)

\* The default_factory, lambda: ('?', 'unknown').
default_factory == <<"?", "unknown">>

DictSet(d, key, value) ==
    [k \in DOMAIN d \cup {key} |-> IF k = key THEN value ELSE d[k]]

\* defaultdict.__getitem__: the value read ...
DictGet(d, key) == IF key \in DOMAIN d THEN d[key] ELSE default_factory

\* ... and the dict afterwards: __missing__ stores the default under the key.
DictTouch(d, key) == IF key \in DOMAIN d THEN d ELSE DictSet(d, key, default_factory)

\* Lines 53-61.
BaseFileTypes ==
    (S_IFBLK :> <<"b", "block_device">>) @@
    (S_IFCHR :> <<"c", "char_device">>) @@
    (S_IFDIR :> <<"d", "directory">>) @@
    (S_IFIFO :> <<"p", "FIFO">>) @@
    (S_IFLNK :> <<"l", "symlink">>) @@
    (S_IFREG :> <<"-", "regular_file">>) @@
    (S_IFSOCK :> <<"s", "socket">>)

\* Lines 63-68: three assignments in this order, made on Python >= 3.4 only.
InitialFileTypes(p) ==
    IF p.py34
    THEN DictSet(DictSet(DictSet(BaseFileTypes,
                                 p.S_IFDOOR, <<"D", "door">>),
                         p.S_IFPORT, <<"P", "event_port">>),
                 p.S_IFWHT, <<"w", "whiteout">>)
    ELSE BaseFileTypes

---------------------------------------------------------------------------
(* strmode, lines 70-81 *)

\* Mutant of ExecChar: the two tests exchanged, the pair chosen by the
\* execute bit and indexed by the special bit.
ExecCharSwapped(mode, special, execute, pair) ==
    (IF HasBit(mode, execute) THEN pair ELSE <<"-", "x">>)
        [IF HasBit(mode, special) THEN 2 ELSE 1]

\* ('Ss' if mode & special else '-x')[bool(mode & execute)]
ExecChar(mode, special, execute, pair) ==
    (IF HasBit(mode, special) THEN pair ELSE <<"-", "x">>)
        [IF HasBit(mode, execute) THEN 2 ELSE 1]

\* The value strmode(mode) returns when the dict is ft, as its characters.
strmode(ft, mode) ==
    << DictGet(ft, S_IFMT(mode))[1],
       IF HasBit(mode, S_IRUSR) THEN "r" ELSE "-",
       IF HasBit(mode, S_IWUSR) THEN "w" ELSE "-",
       ExecChar(mode, S_ISUID, S_IXUSR, <<"S", "s">>),
       IF HasBit(mode, S_IRGRP) THEN "r" ELSE "-",
       IF HasBit(mode, S_IWGRP) THEN "w" ELSE "-",
       ExecChar(mode, S_ISGID, S_IXGRP, <<"S", "s">>),
       IF HasBit(mode, S_IROTH) THEN "r" ELSE "-",
       IF HasBit(mode, S_IWOTH) THEN "w" ELSE "-",
       ExecChar(mode, S_ISVTX, S_IXOTH, <<"T", "t">>),
       " " >>

\* '0{0:0o}'.format(mode): the octal digits of mode, most significant first ...
RECURSIVE OctDigits(_)
OctDigits(n) ==
    LET d == <<"0", "1", "2", "3", "4", "5", "6", "7">>[(n % 8) + 1]
    IN  IF n < 8 THEN <<d>> ELSE Append(OctDigits(n \div 8), d)

\* ... after a literal "0".
mode_octal(mode) == <<"0">> \o OctDigits(mode)

---------------------------------------------------------------------------
(* The operating system: the filesystem and the identity databases *)

Paths == {"file", "tmp", "anon", "link", "link2", "dangling", "loop", "missing"}

\* The paths given on the command line: all but "link", which is reached
\* through "link2".
ArgPaths == Paths \ {"link"}

\* What stat(2)/lstat(2) report for one inode. The optional attributes all
\* have values here; which of them os.stat_result exposes is the platform's.
Inode(mode, ino, uid, gid, size) ==
    [st_mode |-> mode, st_ino |-> ino, st_dev |-> 2049, st_nlink |-> 1,
     st_uid |-> uid, st_gid |-> gid, st_size |-> size,
     st_atime |-> 1700000000 + ino, st_mtime |-> 1600000000 + ino,
     st_ctime |-> 1650000000 + ino,
     extra |-> [a \in ExtraAttrs |->
                  CASE a = "st_blocks" -> (size + 511) \div 512
                    [] a = "st_blksize" -> 4096
                    [] a = "st_birthtime" -> 1500000000 + ino
                    [] OTHER -> 0]]

\* A symbolic link: what lstat(2) reports for the link itself, and its target.
Link(target, ino) ==
    [kind |-> "link", target |-> target,
     st |-> Inode(S_IFLNK + 511, ino, 0, 0, Len(target))]

File(st) == [kind |-> "inode", st |-> st]

\* The filesystem of the runs explored: one path per case of os.stat().
\* "anon" is an inode without type bits (Linux: /proc/<pid>/fd/<n> of an epoll or event fd).
SampleFS ==
    [p \in Paths |->
        CASE p = "file" -> File(Inode(S_IFREG + 420, 11, 0, 0, 1234))
          [] p = "tmp" -> File(Inode(S_IFDIR + S_ISVTX + 511, 14, 1000, 0, 4096))
          [] p = "anon" -> File(Inode(384, 15, 0, 1000, 0))
          [] p = "link" -> Link("file", 21)
          [] p = "link2" -> Link("link", 22)
          [] p = "dangling" -> Link("missing", 23)
          [] p = "loop" -> Link("loop", 24)
          [] p = "missing" -> [kind |-> "absent"]]

\* The password and group databases: id -> name, for the ids that have one.
pwd_db == (0 :> "root")
grp_db == (0 :> "wheel")

\* An OSError as the except clause sees it: e.__class__.__name__ and str(e).
\* Python >= 3.3 raises the subclass of the errno; before, plain OSError.
OSError(p, class, errno, strerror, filename) ==
    [ok |-> FALSE,
     class |-> IF p.py34 THEN class ELSE "OSError",
     message |-> "[Errno " \o errno \o "] " \o strerror \o ": '" \o filename \o "'"]

\* os.stat(filename): follows symbolic links, at most n from here.
RECURSIVE Resolve(_, _, _, _, _)
Resolve(p, f, filename, path, n) ==
    LET node == f[path]
    IN  CASE node.kind = "absent" ->
               OSError(p, "FileNotFoundError", "2", "No such file or directory", filename)
          [] node.kind = "link" ->
               IF n = 0
               THEN OSError(p, "OSError", "40", "Too many levels of symbolic links", filename)
               ELSE Resolve(p, f, filename, node.target, n - 1)
          [] node.kind = "inode" -> [ok |-> TRUE, st |-> node.st]

os_stat(p, f, filename) == Resolve(p, f, filename, filename, MaxFollow)

\* Mutant of os_path_islink: the link test made on what os.stat() returned,
\* stat.S_ISLNK(st.st_mode), instead of on the path.
islink_of_stat_result(f, filename) ==
    LET r == os_stat([py34 |-> TRUE], f, filename)
    IN  r.ok /\ S_IFMT(r.st.st_mode) = S_IFLNK

\* os.path.islink(filename): lstat() succeeds and reports a symbolic link.
os_path_islink(f, filename) == f[filename].kind = "link"

---------------------------------------------------------------------------
(* main, lines 88-139 *)

NoExit == -1

\* Lines 97-101: the record of a path whose os.stat() raised e.
FailureRecord(filename, e) ==
    LET a1 == OdSet(<<>>, "filename", PyStr(filename))
        a2 == OdSet(a1, "success", PyBool(FALSE))
    IN  OdSet(a2, "error",
              PyDict(<< <<"class", PyStr(e.class)>>,
                        <<"message", PyStr(e.message)>> >>))

\* Mutant of owner_name: the number stands in for a missing name.
owner_name_or_uid(uid) == IF uid \in DOMAIN pwd_db THEN PyStr(pwd_db[uid]) ELSE PyInt(uid)

\* Lines 116-119: pwd.getpwuid(uid).pw_name, None on KeyError.
owner_name(uid) == IF uid \in DOMAIN pwd_db THEN PyStr(pwd_db[uid]) ELSE None

\* Lines 123-126: grp.getgrgid(gid).gr_name, None on KeyError.
group_name(gid) == IF gid \in DOMAIN grp_db THEN PyStr(grp_db[gid]) ELSE None

\* Mutant of ExtraStep: a missing attribute is recorded as null.
ExtraStepNull(p, about, st, attr, name) ==
    IF attr \in p.exposed
    THEN OdSet(about, name, PyInt(st.extra[attr]))
    ELSE OdSet(about, name, None)

\* Lines 133-136: about[name] = getattr(st, attr), skipped on AttributeError.
ExtraStep(p, about, st, attr, name) ==
    IF attr \in p.exposed THEN OdSet(about, name, PyInt(st.extra[attr])) ELSE about

\* Line 132: the for loop over extra_fields, from its k-th entry on.
RECURSIVE ExtrasFrom(_, _, _, _)
ExtrasFrom(p, about, st, k) ==
    IF k > Len(extra_fields)
    THEN about
    ELSE ExtrasFrom(p, ExtraStep(p, about, st, extra_fields[k][1], extra_fields[k][2]),
                    st, k + 1)

\* Lines 104-136: the record of a path whose os.stat() returned st. ft is the
\* dict as line 106 finds it; line 109 reads it after line 106's lookup.
SuccessRecord(p, f, ft, filename, st) ==
    LET ft2 == DictTouch(ft, S_IFMT(st.st_mode))
        a1 == OdSet(<<>>, "filename", PyStr(filename))
        a2 == OdSet(a1, "success", PyBool(TRUE))
        a3 == OdSet(a2, "followed_symlink", PyBool(os_path_islink(f, filename)))
        a4 == OdSet(a3, "filetype", PyStr(DictGet(ft, S_IFMT(st.st_mode))[2]))
        a5 == OdSet(a4, "mode", PyInt(st.st_mode))
        a6 == OdSet(a5, "mode_octal", PyStr(mode_octal(st.st_mode)))
        a7 == OdSet(a6, "mode_str", PyStr(strmode(ft2, st.st_mode)))
        a8 == OdSet(a7, "inode", PyInt(st.st_ino))
        a9 == OdSet(a8, "device", PyInt(st.st_dev))
        a10 == OdSet(a9, "links", PyInt(st.st_nlink))
        a11 == OdSet(a10, "owner",
                     PyDict(OdSet(OdSet(<<>>, "uid", PyInt(st.st_uid)),
                                  "name", owner_name(st.st_uid))))
        a12 == OdSet(a11, "group",
                     PyDict(OdSet(OdSet(<<>>, "gid", PyInt(st.st_gid)),
                                  "name", group_name(st.st_gid))))
        a13 == OdSet(a12, "size", PyInt(st.st_size))
        a14 == OdSet(a13, "access_time", PyInt(st.st_atime))
        a15 == OdSet(a14, "modify_time", PyInt(st.st_mtime))
        a16 == OdSet(a15, "change_time", PyInt(st.st_ctime))
    IN  ExtrasFrom(p, a16, st, 1)

\* Mutant of HasNext: the loop stops one path short.
HasNextShort(n, args) == n < Len(args)

\* Line 91: the for loop has paths left.
HasNext(n, args) == n <= Len(args)

\* Mutant of after_failure: the first failure ends the loop.
abort_on_failure(n, args) == Len(args) + 1

\* Lines 96-102: the except clause swallows the exception, so the loop goes
\* on to the next path.
after_failure(n, args) == n + 1

\* Mutant of list_append: failure records are dropped.
append_if_success(l, about) ==
    IF OdGet(about, "success") = PyBool(TRUE) THEN Append(l, about) ELSE l

\* Mutant of list_append: one dict, created before the loop, is filled and
\* appended in every iteration, so every entry of the list is that dict.
append_shared(l, about) == [k \in 1..(Len(l) + 1) |-> about]

\* Line 137: stats.append(about).
list_append(l, about) == Append(l, about)

\* Mutant of ok_after_failure: the flag is left as it was.
ok_left_alone(o) == o

\* Line 102.
ok_after_failure(o) == FALSE

\* Line 139: the argument of sys.exit().
exit_status(o) == IF o THEN 0 ELSE 1

TypeOK ==
    /\ platform \in Platforms
    /\ argv \in Seq(DOMAIN fs) /\ Len(argv) <= MaxArgs
    /\ ok \in BOOLEAN
    /\ i \in 1..(Len(argv) + 1)
    /\ pc \in {"loop", "exit", "done"}
    /\ Len(stdout) <= 1
    /\ exitcode \in {NoExit, 0, 1}

Init ==
    /\ platform \in Platforms
    /\ fs = SampleFS
    /\ argv \in UNION {[1..n -> ArgPaths] : n \in 0..MaxArgs}
    /\ file_types = InitialFileTypes(platform)
    /\ stats = <<>>
    /\ ok = TRUE
    /\ i = 1
    /\ pc = "loop"
    /\ stdout = <<>>
    /\ exitcode = NoExit

\* One iteration of the loop whose os.stat() raises (lines 92-102, 137).
StatFails ==
    /\ pc = "loop"
    /\ HasNext(i, argv)
    /\ LET filename == argv[i]
           r == os_stat(platform, fs, filename)
       IN  /\ ~r.ok
           /\ stats' = list_append(stats, FailureRecord(filename, r))
           /\ ok' = ok_after_failure(ok)
    /\ i' = after_failure(i, argv)
    /\ UNCHANGED <<platform, fs, argv, file_types, pc, stdout, exitcode>>

\* One iteration of the loop whose os.stat() returns (lines 92-95, 103-137).
StatSucceeds ==
    /\ pc = "loop"
    /\ HasNext(i, argv)
    /\ LET filename == argv[i]
           r == os_stat(platform, fs, filename)
       IN  /\ r.ok
           /\ stats' = list_append(stats,
                           SuccessRecord(platform, fs, file_types, filename, r.st))
           /\ file_types' = DictTouch(file_types, S_IFMT(r.st.st_mode))
    /\ i' = i + 1
    /\ UNCHANGED <<platform, fs, argv, ok, pc, stdout, exitcode>>

\* Line 138, once the loop is exhausted: the whole list goes out as one
\* document. json.dumps keeps the list's order and each OrderedDict's key
\* order, so the document is represented by the list it serializes.
PrintStats ==
    /\ pc = "loop"
    /\ ~HasNext(i, argv)
    /\ stdout' = Append(stdout, stats)
    /\ pc' = "exit"
    /\ UNCHANGED <<platform, fs, argv, file_types, stats, ok, i, exitcode>>

\* Line 139.
Exit ==
    /\ pc = "exit"
    /\ exitcode' = exit_status(ok)
    /\ pc' = "done"
    /\ UNCHANGED <<platform, fs, argv, file_types, stats, ok, i, stdout>>

Next == StatFails \/ StatSucceeds \/ PrintStats \/ Exit

Spec == Init /\ [][Next]_vars

---------------------------------------------------------------------------
(* strmode on every mode: the script run on one path, "f", whose inode has *)
(* any of the 2^16 values of st_mode, up to the end of the loop's single   *)
(* iteration (the record, mode_str in it, is then in stats).               *)

InitMode ==
    /\ platform \in Platforms
    /\ \E m \in Modes : fs = [p \in {"f"} |-> File(Inode(m, 11, 0, 0, 0))]
    /\ argv = <<"f">>
    /\ file_types = InitialFileTypes(platform)
    /\ stats = <<>>
    /\ ok = TRUE
    /\ i = 1
    /\ pc = "loop"
    /\ stdout = <<>>
    /\ exitcode = NoExit

SpecMode == InitMode /\ [][StatSucceeds]_vars

---------------------------------------------------------------------------
(* Vocabulary of the properties *)

\* The fields of a success record before the extras, in order.
CoreKeys == <<"filename", "success", "followed_symlink", "filetype", "mode",
              "mode_octal", "mode_str", "inode", "device", "links", "owner",
              "group", "size", "access_time", "modify_time", "change_time">>

Succeeded(rec) == OdGet(rec, "success") = PyBool(TRUE)

\* What os.stat() does with the k-th path.
StatOf(k) == os_stat(platform, fs, argv[k])

Records == 1..Len(stats)

---------------------------------------------------------------------------
\* C1: the output has one record per input path, in input order, each with
\* the path unmodified as its filename: at every moment the records so far
\* are those of the first paths, and once the loop is over there are as many
\* records as paths, in the list and in the printed document.
C1_OneRecordPerPathInOrder ==
    /\ Len(stats) = i - 1
    /\ \A k \in Records : OdGet(stats[k], "filename") = PyStr(argv[k])
    /\ pc # "loop" =>
          /\ Len(stats) = Len(argv)
          /\ Len(stdout) = 1
          /\ Len(stdout[1]) = Len(argv)
          /\ \A k \in 1..Len(argv) :
                OdGet(stdout[1][k], "filename") = PyStr(argv[k])

\* A finished run on three paths, the first repeated as the third, the second
\* one failing.
C1_Witness ==
    /\ pc = "done"
    /\ argv = <<"file", "missing", "file">>
    /\ Len(stdout[1]) = 3
    /\ ~Succeeded(stdout[1][2])

---------------------------------------------------------------------------
\* C2: the exit code is 0 exactly when every record has success = true (the
\* empty list included), 1 exactly when some path's os.stat() failed, and
\* nothing else; before sys.exit() there is no exit code.
C2_ExitCode ==
    /\ pc # "done" => exitcode = NoExit
    /\ pc = "done" =>
          /\ exitcode \in {0, 1}
          /\ exitcode = 0 <=> \A k \in Records : Succeeded(stats[k])
          /\ exitcode = 1 <=> \E k \in 1..Len(argv) : ~StatOf(k).ok

\* A finished run that exits 1 on a failure in the middle of the list.
C2_Witness ==
    /\ pc = "done"
    /\ exitcode = 1
    /\ Len(argv) = 3
    /\ StatOf(1).ok /\ ~StatOf(2).ok /\ StatOf(3).ok

---------------------------------------------------------------------------
\* The record the script produces for a path given alone: built on the dict
\* as the module leaves it, with nothing before it.
AloneRecord(path) ==
    LET r == os_stat(platform, fs, path)
    IN  IF r.ok
        THEN SuccessRecord(platform, fs, InitialFileTypes(platform), path, r.st)
        ELSE FailureRecord(path, r)

\* C3: a failure never aborts the batch nor changes another path's record:
\* every record equals the one of its path processed alone, whatever failed
\* or was looked up before, and every path is attempted and recorded.
C3_FailuresAreLocal ==
    /\ \A k \in Records : stats[k] = AloneRecord(argv[k])
    /\ pc # "loop" => Len(stats) = Len(argv)

\* A finished run with a failure before and a failure after a success.
C3_Witness ==
    /\ pc = "done"
    /\ Len(stats) = 3
    /\ ~Succeeded(stats[1]) /\ Succeeded(stats[2]) /\ ~Succeeded(stats[3])

---------------------------------------------------------------------------
FailureShape(rec) ==
    /\ OdKeys(rec) = <<"filename", "success", "error">>
    /\ OdGet(rec, "success") = PyBool(FALSE)
    /\ OdGet(rec, "error")[1] = "dict"
    /\ OdKeys(OdGet(rec, "error")[2]) = <<"class", "message">>

SuccessShape(rec) ==
    /\ Len(rec) >= Len(CoreKeys)
    /\ SubSeq(OdKeys(rec), 1, Len(CoreKeys)) = CoreKeys
    /\ \A k \in 1..Len(rec) : rec[k][1] # "error"
    /\ \A k, l \in 1..Len(rec) : rec[k][1] = rec[l][1] => k = l

C4_Shape ==
    \A k \in Records :
        /\ OdHas(stats[k], "filename") /\ OdHas(stats[k], "success")
        /\ OdGet(stats[k], "success") \in {PyBool(TRUE), PyBool(FALSE)}
        /\ IF Succeeded(stats[k]) THEN SuccessShape(stats[k]) ELSE FailureShape(stats[k])

C4_AppendOnly ==
    /\ Len(stats') >= Len(stats)
    /\ \A k \in Records : stats'[k] = stats[k]

\* C4: every appended record has filename and success and exactly one of the
\* two shapes (success = false: an error object with class and message and no
\* success field; success = true: all core success fields and no error), and
\* no step changes a record once it is in the list.
C4_RecordShapes == []C4_Shape /\ [][C4_AppendOnly]_vars

\* A list holding a failure record followed by a success record, with a
\* third path still to be processed.
C4_Witness ==
    /\ Len(stats) = 2
    /\ Len(argv) = 3
    /\ FailureShape(stats[1])
    /\ SuccessShape(stats[2])

---------------------------------------------------------------------------
\* C5: the document is written exactly once, only after every path has been
\* attempted and recorded, and the exit follows it: nothing is on standard
\* output while the loop runs, what is written is the complete list, and
\* there is an exit code only when the document is out.
C5_OutputOnceAtEnd ==
    /\ Len(stdout) <= 1
    /\ pc = "loop" => stdout = <<>>
    /\ pc # "loop" =>
          /\ Len(stdout) = 1
          /\ i = Len(argv) + 1
          /\ Len(stats) = Len(argv)
          /\ stdout[1] = stats
    /\ exitcode # NoExit => Len(stdout) = 1

\* The process has exited after printing the three records of three paths.
C5_Witness ==
    /\ pc = "done"
    /\ exitcode # NoExit
    /\ Len(argv) = 3
    /\ Len(stdout) = 1
    /\ Len(stdout[1]) = 3

---------------------------------------------------------------------------
\* The character the claim gives the third position of a triplet: lower is
\* the letter with the execute bit, upper the one without.
TripletEnd(special, execute, upper, lower) ==
    CASE special /\ execute -> lower
      [] special /\ ~execute -> upper
      [] ~special /\ execute -> "x"
      [] OTHER -> "-"

ReadChar(b) == IF b THEN "r" ELSE "-"
WriteChar(b) == IF b THEN "w" ELSE "-"

\* mode & mask # 0, by the binary digits of mode (bit k is worth 2^k).
Bits(mode) == [k \in 0..15 |-> (mode \div (2 ^ k)) % 2 = 1]

C6_ModeStr(mode, s) ==
    LET b == Bits(mode)
    IN  /\ Len(s) = 11
        /\ s[1] \in {"b", "c", "d", "p", "l", "-", "s", "D", "P", "w", "?"}
        /\ s[2] = ReadChar(b[8])
        /\ s[3] = WriteChar(b[7])
        /\ s[4] = TripletEnd(b[11], b[6], "S", "s")
        /\ s[5] = ReadChar(b[5])
        /\ s[6] = WriteChar(b[4])
        /\ s[7] = TripletEnd(b[10], b[3], "S", "s")
        /\ s[8] = ReadChar(b[2])
        /\ s[9] = WriteChar(b[1])
        /\ s[10] = TripletEnd(b[9], b[0], "T", "t")
        /\ s[11] = " "
        /\ mode = 33188 => s = <<"-", "r", "w", "-", "r", "-", "-", "r", "-", "-", " ">>
        /\ mode = 16877 => s = <<"d", "r", "w", "x", "r", "-", "x", "r", "-", "x", " ">>
        /\ mode \div 4096 = 8 => s[1] = "-"
        /\ mode \div 4096 = 4 => s[1] = "d"

\* C6: for every mode value strmode(mode) has 11 characters: the type symbol,
\* the owner, group and other triplets (r/-, w/-, then x, S, s or - with
\* setuid and setgid, and x, T, t or - with the sticky bit), and a final
\* space; 0644 on a regular file gives "-rw-r--r-- ", 0755 on a directory
\* "drwxr-xr-x ".
C6_StrmodeLayout ==
    \A k \in Records :
        StatOf(k).ok =>
            C6_ModeStr(StatOf(k).st.st_mode, OdGet(stats[k], "mode_str")[2])

\* strmode has run on a setuid file without owner-execute that is sticky
\* and executable by others.
C6_Witness ==
    /\ Len(stats) = 1
    /\ fs["f"].st.st_mode = 32768 + 2048 + 512 + 420 + 1
    /\ OdGet(stats[1], "mode_str")[2] =
          <<"-", "r", "w", "S", "r", "-", "-", "r", "-", "t", " ">>

---------------------------------------------------------------------------
\* The seven types every platform has, as the claim lists them.
C7_Table ==
    (S_IFBLK :> <<"b", "block_device">>) @@ (S_IFCHR :> <<"c", "char_device">>) @@
    (S_IFDIR :> <<"d", "directory">>) @@ (S_IFIFO :> <<"p", "FIFO">>) @@
    (S_IFLNK :> <<"l", "symlink">>) @@ (S_IFREG :> <<"-", "regular_file">>) @@
    (S_IFSOCK :> <<"s", "socket">>)

\* The types the platform defines besides: its non-zero optional constants.
C7_PlatformTypes == {platform.S_IFDOOR, platform.S_IFPORT, platform.S_IFWHT} \ {0}

\* C7: the type symbol of mode_str and the filetype name come from one fixed
\* table (b/block_device, c/char_device, d/directory, p/FIFO, l/symlink,
\* -/regular_file, s/socket), and type bits outside the table, type bits 0
\* where the door, event-port and whiteout constants are 0 included, give
\* "?" and "unknown", on the first and on every later lookup.
C7_TypeClassification ==
    \A k \in Records :
        Succeeded(stats[k]) =>
            LET t == S_IFMT(OdGet(stats[k], "mode")[2])
                got == << OdGet(stats[k], "mode_str")[2][1],
                          OdGet(stats[k], "filetype")[2] >>
            IN  /\ t \in DOMAIN C7_Table => got = C7_Table[t]
                /\ t \notin DOMAIN C7_Table \cup C7_PlatformTypes =>
                       got = <<"?", "unknown">>

---------------------------------------------------------------------------
\* C8: a uid (gid) without an entry in the identity database leaves the
\* record a success record with every core field, reports the number
\* unchanged with name null, and does not make the run fail; the two lookups
\* do not depend on each other.
C8_NameMissIsNotAnError ==
    /\ \A k \in Records :
          StatOf(k).ok =>
              LET st == StatOf(k).st
                  owner == OdGet(stats[k], "owner")
                  group == OdGet(stats[k], "group")
              IN  /\ Succeeded(stats[k])
                  /\ SuccessShape(stats[k])
                  /\ owner = PyDict(<< <<"uid", PyInt(st.st_uid)>>,
                                       <<"name", IF st.st_uid \in DOMAIN pwd_db
                                                 THEN PyStr(pwd_db[st.st_uid])
                                                 ELSE None>> >>)
                  /\ group = PyDict(<< <<"gid", PyInt(st.st_gid)>>,
                                       <<"name", IF st.st_gid \in DOMAIN grp_db
                                                 THEN PyStr(grp_db[st.st_gid])
                                                 ELSE None>> >>)
    /\ (pc = "done" /\ \A k \in 1..Len(argv) : StatOf(k).ok) => exitcode = 0

\* A run that exits 0 after a file whose owner alone is unknown, one whose
\* group alone is unknown and one with both known.
C8_Witness ==
    /\ pc = "done"
    /\ exitcode = 0
    /\ Len(stats) = 3
    /\ OdGet(OdGet(stats[1], "owner")[2], "name") = None
    /\ OdGet(OdGet(stats[1], "group")[2], "name") = PyStr("wheel")
    /\ OdGet(OdGet(stats[2], "owner")[2], "name") = PyStr("root")
    /\ OdGet(OdGet(stats[2], "group")[2], "name") = None
    /\ OdGet(OdGet(stats[3], "owner")[2], "name") = PyStr("root")
    /\ OdGet(OdGet(stats[3], "group")[2], "name") = PyStr("wheel")

---------------------------------------------------------------------------
\* The output names of the attributes the platform exposes, in list order.
C9_Expected ==
    LET Exposed(e) == e[1] \in platform.exposed
        kept == SelectSeq(extra_fields, Exposed)
    IN  [k \in 1..Len(kept) |-> kept[k][2]]

\* C9: in every success record each extra field is present exactly when the
\* platform's stat result has its attribute; a missing attribute leaves no
\* key and no null, and the extras present follow change_time in the order
\* of the fixed list.
C9_ExtrasFollowPlatform ==
    \A k \in Records :
        Succeeded(stats[k]) =>
            /\ \A e \in 1..Len(extra_fields) :
                  OdHas(stats[k], extra_fields[e][2])
                      <=> extra_fields[e][1] \in platform.exposed
            /\ SubSeq(OdKeys(stats[k]), Len(CoreKeys) + 1, Len(stats[k])) = C9_Expected
            /\ \A e \in 1..Len(stats[k]) : stats[k][e][2] # None
            /\ stats[k][Len(CoreKeys)][1] = "change_time"

\* A success record on a platform that lacks the first attribute of the
\* list and has the last.
C9_Witness ==
    /\ "st_blocks" \notin platform.exposed
    /\ "st_file_attributes" \in platform.exposed
    /\ Len(stats) >= 1
    /\ Succeeded(stats[1])
    /\ OdHas(stats[1], "file_attributes")
    /\ ~OdHas(stats[1], "blocks")

---------------------------------------------------------------------------
\* Where a path leads after n symbolic links.
RECURSIVE C10_Walk(_, _)
C10_Walk(path, n) ==
    IF n = 0 \/ fs[path].kind # "link" THEN path ELSE C10_Walk(fs[path].target, n - 1)

\* C10: os.stat() dereferences symbolic links and followed_symlink is a link
\* test of the path itself: a success record has followed_symlink true
\* exactly when its path is a symbolic link, and describes the inode the
\* links lead to, never the link; a link that leads to nothing retrievable
\* gives a failure record.
C10_SymlinkDecoupling ==
    \A k \in Records :
        LET end == fs[C10_Walk(argv[k], MaxFollow)]
        IN  /\ Succeeded(stats[k]) <=> end.kind = "inode"
            /\ Succeeded(stats[k]) =>
                  /\ OdGet(stats[k], "followed_symlink")
                         = PyBool(fs[argv[k]].kind = "link")
                  /\ OdGet(stats[k], "inode") = PyInt(end.st.st_ino)
                  /\ OdGet(stats[k], "mode") = PyInt(end.st.st_mode)
                  /\ OdGet(stats[k], "size") = PyInt(end.st.st_size)
                  /\ OdGet(stats[k], "filetype") # PyStr("symlink")

\* The records of a link to a link to a file, of a dangling link and of the
\* file itself.
C10_Witness ==
    /\ argv = <<"link2", "dangling", "file">>
    /\ Len(stats) = 3
    /\ OdGet(stats[1], "followed_symlink") = PyBool(TRUE)
    /\ OdGet(stats[1], "inode") = OdGet(stats[3], "inode")
    /\ ~Succeeded(stats[2])
    /\ OdGet(stats[3], "followed_symlink") = PyBool(FALSE)

=============================================================================
